---------------------------- MODULE Spec2Model ----------------------------
(***************************************************************************)
(* Verification model of the correlation engine of SecuritiesCorrelations: *)
(*   scripts/file_reading_funcs.py      reading, validating, detrending    *)
(*   scripts/calculate_correlations.py  the three correlation passes and   *)
(*                                      define_top_correlations            *)
(*                                                                         *)
(* Conventions.                                                            *)
(*  - A time series is a sequence of <<timestamp, value>> pairs with       *)
(*    strictly increasing timestamps (a one-column pandas object and its   *)
(*    index).  pandas' container typing (Series against DataFrame) is not  *)
(*    modelled.                                                            *)
(*  - A float is an integer; NaN is an integer outside every range used;   *)
(*    every comparison with NaN is false, as in IEEE 754.                  *)
(*  - A correlation coefficient r is encoded as sign(r) * floor(1000 r^2), *)
(*    which is monotone in r: 1000 is r = 1, -1000 is r = -1.              *)
(*  - Candidate symbols are numbered 1, 2, ...; windows (start_date) are   *)
(*    numbered 1 .. NumWindows.                                            *)
(*  - A Python dict is a sequence of <<key, value>> pairs with distinct    *)
(*    keys, in insertion order.                                            *)
(***************************************************************************)
EXTENDS Integers, Sequences, FiniteSets, TLC

VARIABLES
    symbols,           \* CorrelationCalculator.symbols
    store,             \* the series store: what each symbol's data files hold
    all_correlations,  \* main_security.all_correlations, per main security
    positive_correlations, \* main_security.positive_correlations
    negative_correlations, \* main_security.negative_correlations
    cache,             \* CorrelationCalculator.cache: symbol -> prepared series
    sink,              \* data/files_to_delete.txt, the symbols appended so far
    call,              \* the correlation pass in progress, or Idle
    workers,           \* thread mode: each worker's position
    config,            \* the run: the passes' source, dl_data and use_ch, the
                       \* execution mode, the iteration order of set(self.symbols)
    ncalls,            \* the number of calls made so far
    pre,               \* observer: all_correlations when the pass in progress began
    mp_merged,         \* observer: the entries the last process-mode merge wrote
    ranked_from,       \* observer: the map define_top_correlations last ranked
    prepared           \* observer: what get_validated_security_data last returned,
                       \* per symbol

vars == <<symbols, store, all_correlations, positive_correlations,
          negative_correlations, cache, sink, call, workers, config, ncalls, pre,
          mp_merged, ranked_from, prepared>>

----------------------------------------------------------------------------
(* Floats *)

NaN == 0 - 1000000

IsNaN(x) == x = NaN

\* x < y on floats: false as soon as one side is NaN
FloatLt(x, y) == ~IsNaN(x) /\ ~IsNaN(y) /\ x < y

Min(a, b) == IF a <= b THEN a ELSE b

----------------------------------------------------------------------------
(* Series helpers *)

Times(s) == {s[i][1] : i \in 1..Len(s)}

ValueAt(s, t) == LET i == CHOOSE j \in 1..Len(s) : s[j][1] = t IN s[i][2]

RECURSIVE SelectPairs(_, _)
\* the pairs of s whose timestamp is in T, in order
SelectPairs(s, T) ==
    IF s = <<>> THEN <<>>
    ELSE IF Head(s)[1] \in T THEN <<Head(s)>> \o SelectPairs(Tail(s), T)
         ELSE SelectPairs(Tail(s), T)

RECURSIVE SumSeq(_)
SumSeq(q) == IF q = <<>> THEN 0 ELSE Head(q) + SumSeq(Tail(q))

Values(s) == [i \in 1..Len(s) |-> s[i][2]]

----------------------------------------------------------------------------
(* scripts/file_reading_funcs.py: validation and detrending *)

window_size == 10

\* lambda x: all(np.isnan(x))
AllNaNWindow(win) == \A j \in 1..Len(win) : IsNaN(win[j])

\* lambda x: np.all(x == x.iloc[0])
AllEqualFirstWindow(win) == \A j \in 1..Len(win) : ~IsNaN(win[j]) /\ ~IsNaN(win[1]) /\ win[j] = win[1]

\* the function handed to apply, named by f
ApplyTo(f, win) == IF f = "all_nan" THEN AllNaNWindow(win) ELSE AllEqualFirstWindow(win)

\* pandas: series.rolling(w).apply(f).  min_periods defaults to w, and
\* roll_apply calls f only on a window that holds at least min_periods
\* finite values (counts[i] >= minp); every other position is NaN.
\* The result of f is stored as a float: True is 1, False is 0.
RollingApply(vals, w, f) ==
    [i \in 1..Len(vals) |->
        IF i < w THEN NaN
        ELSE LET win == SubSeq(vals, i - w + 1, i)
                 finite == Cardinality({j \in 1..w : ~IsNaN(win[j])})
             IN  IF finite >= w THEN (IF ApplyTo(f, win) THEN 1 ELSE 0) ELSE NaN]

\* pandas: Series.any() with skipna=True: NaN entries are skipped
AnySkipNa(vals) == \E i \in 1..Len(vals) : ~IsNaN(vals[i]) /\ vals[i] # 0

is_series_continuous(series) ==
    ~AnySkipNa(RollingApply(Values(series), window_size, "all_nan"))

\* is_series_non_repeating, had window_size been 9
NonRepeatingOverNine(series) ==
    ~AnySkipNa(RollingApply(Values(series), window_size - 1, "all_equal_first"))

is_series_non_repeating(series) ==
    ~AnySkipNa(RollingApply(Values(series), window_size, "all_equal_first"))

\* series.diff(): the first entry, and every entry with a NaN operand, is NaN
Diff(series) ==
    [i \in 1..Len(series) |->
        IF i = 1 \/ IsNaN(series[i][2]) \/ IsNaN(series[i - 1][2])
        THEN <<series[i][1], NaN>>
        ELSE <<series[i][1], series[i][2] - series[i - 1][2]>>]

\* series.dropna()
DropNa(series) == SelectSeq(series, LAMBDA p : ~IsNaN(p[2]))

\* Detrend, had only the leading entry of the differences been dropped
DetrendDropFirst(series) == IF series = <<>> THEN <<>> ELSE Tail(Diff(series))

\* security_data.diff().dropna()
Detrend(series) == DropNa(Diff(series))

\* Results of a call: a value, None, or a raised exception
None == [kind |-> "None"]

Data(series) == [kind |-> "data", series |-> series]

Raised(exc) == [kind |-> "raise", exc |-> exc]

IsData(r) == r.kind = "data"

IsRaise(r) == r.kind = "raise"

\* get_validated_security_data, from the fetched security_data on (lines 78-94)
ValidateAndDetrend(fetched) ==
    IF ~IsData(fetched) THEN fetched
    ELSE IF ~is_series_continuous(fetched.series) THEN None
    ELSE IF ~is_series_non_repeating(fetched.series) THEN None
    ELSE Data(Detrend(fetched.series))

----------------------------------------------------------------------------
(* scripts/file_reading_funcs.py: the series store and its readers *)

(* What the store holds for one symbol:                                    *)
(*   file  "none"   no parquet file, no rows in the warehouse, not listed  *)
(*         "date"   the yahoo parquet has a 'Date' column                  *)
(*         "noadj"  the yahoo parquet has no 'Adj Close' column            *)
(*         "frame"  a parquet with an 'Adj Close' column                   *)
(*   dup   the frame has duplicated or NaN-only columns                    *)
(*   flat  series.isna().all().all() or                                    *)
(*         series.dropna().nunique().nunique() == 1                        *)
(*   raw   the price column, as <<timestamp, value>> pairs                 *)
StoreEntry(file, dup, flat, raw) == [file |-> file, dup |-> dup, flat |-> flat, raw |-> raw]

\* a structural check that writes the sink for duplicate or NaN-only columns
\* only
SeriesIsEmptySilent(st, symbol, snk) ==
    IF st.dup THEN [empty |-> TRUE, sink |-> Append(snk, symbol)]
    ELSE IF st.raw = <<>> \/ st.flat THEN [empty |-> TRUE, sink |-> snk]
    ELSE [empty |-> FALSE, sink |-> snk]

\* series_is_empty: TRUE, with the symbol appended to files_to_delete.txt, or FALSE
series_is_empty(st, symbol, snk) ==
    IF st.dup THEN [empty |-> TRUE, sink |-> Append(snk, symbol)]
    ELSE IF st.raw = <<>> \/ st.flat THEN [empty |-> TRUE, sink |-> Append(snk, symbol)]
    ELSE [empty |-> FALSE, sink |-> snk]

\* read_series_data, lines 50-53: the 'Adj Close' column unless series_is_empty
AdjCloseUnlessEmpty(e, st) ==
    [res |-> IF e.empty THEN None ELSE Data(st.raw), sink |-> e.sink]

\* read_series_data(symbol, source)
read_series_data(st, symbol, source, snk) ==
    IF source = "yahoo" THEN
        IF st.file = "none" THEN [res |-> None, sink |-> snk]
        ELSE IF st.file = "date" THEN [res |-> Raised("AttributeError"), sink |-> snk]
        ELSE IF st.file = "noadj" THEN [res |-> None, sink |-> snk]
        ELSE AdjCloseUnlessEmpty(series_is_empty(st, symbol, snk), st)
    ELSE IF source = "alpaca" THEN
        IF st.file = "none" THEN [res |-> None, sink |-> snk]
        ELSE [res |-> Data(st.raw), sink |-> snk]
    ELSE [res |-> Raised("ValueError"), sink |-> snk]

\* download_yfin_data(symbol): the downloaded data, or an empty series
download_yfin_data(st) == IF st.file = "none" THEN Data(<<>>) ELSE Data(st.raw)

\* the first timestamp of a window's look-back horizon
WindowStart(w) == 2 * w - 1

\* get_data_from_ch_stock_data(symbol, start_date): the rows from start_date on
get_data_from_ch_stock_data(st, w) ==
    IF st.file = "none" THEN None
    ELSE Data(SelectSeq(st.raw, LAMBDA p : p[1] >= WindowStart(w)))

\* get_validated_security_data, lines 71-76: the raw security_data
FetchSecurityData(st, symbol, w, source, dl_data, use_ch, snk) ==
    IF dl_data THEN [res |-> download_yfin_data(st), sink |-> snk]
    ELSE IF use_ch THEN [res |-> get_data_from_ch_stock_data(st, w), sink |-> snk]
    ELSE read_series_data(st, symbol, source, snk)

\* get_validated_security_data, lines 78-94, with the sink the fetch left
Validated(fetched) == [res |-> ValidateAndDetrend(fetched.res), sink |-> fetched.sink]

\* get_validated_security_data(symbol, start_date, end_date, source, dl_data, use_ch)
original_get_validated_security_data(st, symbol, w, source, dl_data, use_ch, snk) ==
    Validated(FetchSecurityData(st, symbol, w, source, dl_data, use_ch, snk))

----------------------------------------------------------------------------
(* scripts/calculate_correlations.py: correlation of two prepared series *)

\* sign(r) * floor(1000 * r^2) of the Pearson coefficient r of xs and ys;
\* NaN when fewer than two points or a zero variance leave r undefined
compute_correlation(xs, ys) ==
    LET n   == Len(xs)
        sx  == SumSeq(xs)
        sy  == SumSeq(ys)
        sxy == SumSeq([i \in 1..n |-> xs[i] * ys[i]])
        sxx == SumSeq([i \in 1..n |-> xs[i] * xs[i]])
        syy == SumSeq([i \in 1..n |-> ys[i] * ys[i]])
        cov == n * sxy - sx * sy
        vx  == n * sxx - sx * sx
        vy  == n * syy - sy * sy
    IN  IF n < 2 \/ vx = 0 \/ vy = 0 THEN NaN
        ELSE IF cov >= 0 THEN (1000 * cov * cov) \div (vx * vy)
        ELSE 0 - ((1000 * cov * cov) \div (vx * vy))

\* get_correlation_for_series: inner-join alignment on the index, then the
\* correlation; align() raises TypeError when the candidate's data is None
get_correlation_for_series(main_data, security_data) ==
    IF ~IsData(security_data) THEN Raised("TypeError")
    ELSE LET T == Times(main_data) \cap Times(security_data.series)
             aligned_main   == SelectPairs(main_data, T)
             aligned_symbol == SelectPairs(security_data.series, T)
         IN  [kind |-> "float",
              value |-> compute_correlation(Values(aligned_main), Values(aligned_symbol))]

----------------------------------------------------------------------------
(* Python dicts and lists *)

DictKeys(d) == {d[i][1] : i \in 1..Len(d)}

DictHas(d, k) == \E i \in 1..Len(d) : d[i][1] = k

DictGet(d, k) == LET i == CHOOSE j \in 1..Len(d) : d[j][1] = k IN d[i][2]

\* d[k] = v: an existing key keeps its place, a new key goes last
DictSet(d, k, v) ==
    IF DictHas(d, k) THEN [i \in 1..Len(d) |-> IF d[i][1] = k THEN <<k, v>> ELSE d[i]]
    ELSE Append(d, <<k, v>>)

Reverse(a) == [i \in 1..Len(a) |-> a[Len(a) + 1 - i]]

\* A slot of all_correlations: the key is absent, holds None, or holds a dict
Absent == [state |-> "absent", d |-> <<>>]

NoneSlot == [state |-> "none", d |-> <<>>]

DictSlot(d) == [state |-> "dict", d |-> d]

----------------------------------------------------------------------------
(* sorted(correlation_dict.keys(), key=correlation_dict.get, reverse=...)  *)
(* CPython's list.sort on fewer than 64 items: the leading run            *)
(* (count_run), reversed when strictly descending, then binary insertion   *)
(* of the rest (binarysort).  On 64 items or more CPython merges runs of   *)
(* minrun items; without NaN keys that yields the same (the stable) order. *)
(* Items are <<key, value>> pairs compared by value with <.                *)

ItemLt(a, b) == FloatLt(a[2], b[2])

RECURSIVE RunEnd(_, _, _)
\* the last index of the run that starts at 1 and reaches i
RunEnd(a, i, descending) ==
    IF i = Len(a) THEN i
    ELSE IF descending
         THEN (IF ItemLt(a[i + 1], a[i]) THEN RunEnd(a, i + 1, descending) ELSE i)
         ELSE (IF ItemLt(a[i + 1], a[i]) THEN i ELSE RunEnd(a, i + 1, descending))

RECURSIVE InsertPos(_, _, _, _)
\* binarysort's search: where pivot goes among the sorted a[l .. r-1]
InsertPos(a, pivot, l, r) ==
    IF l >= r THEN l
    ELSE LET p == l + ((r - l) \div 2)
         IN  IF ItemLt(pivot, a[p]) THEN InsertPos(a, pivot, l, p)
             ELSE InsertPos(a, pivot, p + 1, r)

RECURSIVE BinarySort(_, _)
\* binarysort: a[1 .. start-1] is sorted; insert a[start], a[start+1], ...
BinarySort(a, start) ==
    IF start > Len(a) THEN a
    ELSE LET pos == InsertPos(a, a[start], 1, start)
             moved == SubSeq(a, 1, pos - 1) \o <<a[start]>> \o SubSeq(a, pos, start - 1)
                      \o SubSeq(a, start + 1, Len(a))
         IN  BinarySort(moved, start + 1)

\* the stable ascending order of a list without NaN keys: an item goes after
\* every smaller item and after every earlier item with an equal key
StableRanks(a) ==
    [i \in 1..Len(a) |->
        1 + Cardinality({j \in 1..Len(a) :
                            ItemLt(a[j], a[i]) \/ (j < i /\ ~ItemLt(a[i], a[j]))})] \o <<>>

Placed(a, ranks) == [p \in 1..Len(a) |-> a[CHOOSE i \in 1..Len(a) : ranks[i] = p]]

ListSort(a) ==
    IF Len(a) < 2 THEN a
    ELSE IF Len(a) >= 64 THEN Placed(a, StableRanks(a))
    ELSE LET descending == ItemLt(a[2], a[1])
             n == RunEnd(a, 2, descending)
             run == IF descending THEN Reverse(SubSeq(a, 1, n)) ELSE SubSeq(a, 1, n)
         IN  BinarySort(run \o SubSeq(a, n + 1, Len(a)), n + 1)

\* reverse=True: reverse, sort, reverse (list.sort keeps the sort stable so)
Sorted(a, reverse) == IF reverse THEN Reverse(ListSort(Reverse(a))) ELSE ListSort(a)

----------------------------------------------------------------------------
(* The main securities of a run (scripts/correlation_constants.py) *)

NumWindows == 2

\* start_years, and the start_date values the passes are called with
Windows == 1..NumWindows

start_years == [i \in 1..NumWindows |-> i]

\* all_main_securities: main security 1 is a Security, main security 2 a
\* FredmdSeries
MainList == <<1, 2>>

Mains == {MainList[i] : i \in 1..Len(MainList)}

MainKind(m) == IF m = 1 THEN "Security" ELSE "FredmdSeries"

\* isinstance(main_security, Security)
IsSecurity(m) == MainKind(m) = "Security"

\* main_security.symbol: the main security's identity
MainSymbol(m) == m

Stamp(vals) == [i \in 1..Len(vals) |-> <<i, vals[i]>>]

MainRaw(m) ==
    IF m = 1 THEN Stamp(<<0, 1, 0, 2, 0, 1>>) ELSE Stamp(<<1, 2, 4, 3, 3, 6>>)

\* main_security.series_data_detrended[start_date]
series_data_detrended(m, w) ==
    Detrend(SelectSeq(MainRaw(m), LAMBDA p : p[1] >= WindowStart(w)))

----------------------------------------------------------------------------
(* define_top_correlations *)

num_symbols == 100

\* RankWindow, had line 67 assigned an empty dict
RankWindowEmptied(st, m, w) ==
    LET slot == st.ac[m][w]
    IN  IF slot.state = "none"
        THEN [st EXCEPT !.exc = "TypeError"]
        ELSE IF Len(slot.d) = 0 THEN st
        ELSE LET desc == Sorted(slot.d, TRUE)
                 asc  == Sorted(slot.d, FALSE)
                 k    == Min(num_symbols, Len(slot.d))
             IN  [st EXCEPT !.pos[m][w] = @ \o SubSeq(desc, 1, k),
                            !.neg[m][w] = @ \o SubSeq(asc, 1, k),
                            !.rf[m][w]  = slot.d,
                            !.ac[m][w]  = DictSlot(<<>>)]

\* RankWindow, had lines 55 and 61 taken the whole sorted list
RankWindowUncut(st, m, w) ==
    LET slot == st.ac[m][w]
    IN  IF slot.state = "none"
        THEN [st EXCEPT !.exc = "TypeError"]
        ELSE IF Len(slot.d) = 0 THEN st
        ELSE LET desc == Sorted(slot.d, TRUE)
                 asc  == Sorted(slot.d, FALSE)
             IN  [st EXCEPT !.pos[m][w] = @ \o desc,
                            !.neg[m][w] = @ \o asc,
                            !.rf[m][w]  = slot.d,
                            !.ac[m][w]  = NoneSlot]

\* lines 45-67 for one main security and one start_date, on the state st
RankWindow(st, m, w) ==
    LET slot == st.ac[m][w]
    IN  IF slot.state = "none"
        THEN [st EXCEPT !.exc = "TypeError"]           \* len(None)
        ELSE IF Len(slot.d) = 0 THEN st                \* absent key or empty dict
        ELSE LET desc == Sorted(slot.d, TRUE)
                 asc  == Sorted(slot.d, FALSE)
                 k    == Min(num_symbols, Len(slot.d))
             IN  [st EXCEPT !.pos[m][w] = @ \o SubSeq(desc, 1, k),
                            !.neg[m][w] = @ \o SubSeq(asc, 1, k),
                            !.rf[m][w]  = slot.d,
                            !.ac[m][w]  = NoneSlot]

RECURSIVE RankFrom(_, _, _)
\* the two loops of define_top_correlations from the k-th (main, start_date)
\* pair on; an exception ends the call
RankFrom(st, mains, k) ==
    IF k > Len(mains) * NumWindows \/ st.exc # "none" THEN st
    ELSE LET m == mains[((k - 1) \div NumWindows) + 1]
             w == start_years[((k - 1) % NumWindows) + 1]
         IN  RankFrom(RankWindow(st, m, w), mains, k + 1)

define_top_correlations(mains) ==
    RankFrom([ac |-> all_correlations, pos |-> positive_correlations,
              neg |-> negative_correlations, rf |-> ranked_from, exc |-> "none"],
             mains, 1)

----------------------------------------------------------------------------
(* CorrelationCalculator: the write of one correlation, and the sequential pass *)

\* if start_date not in main_security.all_correlations:
\*     main_security.all_correlations[start_date] = {}
CreateIfAbsent(slot) == IF slot.state = "absent" THEN DictSlot(<<>>) ELSE slot

\* main_security.all_correlations[start_date][symbol] = correlation_float,
\* on a slot that holds a dict
StoreCorrelation(slot, symbol, value) == DictSlot(DictSet(slot.d, symbol, value))

\* the prepared series of a candidate, as the sequential pass and the thread
\* worker obtain it: straight from original_get_validated_security_data
Prepare(symbol, w, snk) ==
    original_get_validated_security_data(store[symbol], symbol, w, config.source,
                                         config.dl_data, config.use_ch, snk)

\* lines 183-186 on the state st of the pass, for correlation result c:
\* TypeError from get_correlation_for_series skips the pair (lines 179-181)
RecordCorrelation(st, m, w, symbol, c, slot) ==
    IF IsRaise(c) THEN st
    ELSE IF slot.state = "none" THEN [st EXCEPT !.exc = "TypeError"]   \* None[symbol] = ...
    ELSE [st EXCEPT !.ac[m][w] = StoreCorrelation(slot, symbol, c.value)]

RECURSIVE SeqMains(_, _, _, _, _)
\* lines 169-186: the loop over the main securities, from the mi-th on.  The
\* set of main securities is iterated in the order of MainList.
SeqMains(st, symbol, data, mi, w) ==
    IF mi > Len(MainList) \/ st.exc # "none" THEN st
    ELSE IF IsSecurity(MainList[mi]) /\ symbol = MainSymbol(MainList[mi])
    THEN SeqMains(st, symbol, data, mi + 1, w)
    ELSE SeqMains(RecordCorrelation(st, MainList[mi], w, symbol,
                      get_correlation_for_series(series_data_detrended(MainList[mi], w), data),
                      CreateIfAbsent(st.ac[MainList[mi]][w])),
                  symbol, data, mi + 1, w)

\* lines 163-186 for one symbol whose preparation gave r: AttributeError
\* skips the symbol, any other exception leaves the pass
SeqSymbol(st, symbol, r, w) ==
    IF IsRaise(r.res) /\ r.res.exc = "AttributeError" THEN [st EXCEPT !.sink = r.sink]
    ELSE IF IsRaise(r.res) THEN [st EXCEPT !.sink = r.sink, !.exc = r.res.exc]
    ELSE SeqMains([st EXCEPT !.sink = r.sink], symbol, r.res, 1, w)

RECURSIVE SeqSymbols(_, _, _, _)
\* lines 162-186: the loop over set(self.symbols), iterated in the order `order`
SeqSymbols(st, order, i, w) ==
    IF i > Len(order) \/ st.exc # "none" THEN st
    ELSE SeqSymbols(SeqSymbol(st, order[i], Prepare(order[i], w, st.sink), w), order, i + 1, w)

\* define_correlations_for_series_list, from all_correlations `ac` and sink `snk`
define_correlations_for_series_list(ac, snk, order, w) ==
    SeqSymbols([ac |-> ac, sink |-> snk, exc |-> "none"], order, 1, w)

\* the orders in which a Python set of the items of list q may be iterated
SetOrders(q) ==
    LET S == {q[i] : i \in 1..Len(q)}
    IN  {f \in [1..Cardinality(S) -> S] : \A i, j \in 1..Cardinality(S) : i # j => f[i] # f[j]}

----------------------------------------------------------------------------
(* CorrelationCalculator: the process-parallel pass *)

\* a cache miss whose set leaves a partly written entry
CacheMissTorn(cch, symbol, r) ==
    [res |-> r.res,
     cache |-> IF IsData(r.res)
               THEN [cch EXCEPT ![symbol] =
                        Data(SubSeq(r.res.series, 1, Len(r.res.series) - 1))]
               ELSE cch,
     sink |-> r.sink]

\* a cache miss that also keeps an entry for a preparation without result
CacheMissKeepsRejected(cch, symbol, r) ==
    [res |-> r.res,
     cache |-> IF IsData(r.res) THEN [cch EXCEPT ![symbol] = r.res]
               ELSE [cch EXCEPT ![symbol] = Data(<<>>)],
     sink |-> r.sink]

\* lines 148-152: the cache miss, where the preparation gave r
CacheMiss(cch, symbol, r) ==
    [res |-> r.res,
     cache |-> IF IsData(r.res) THEN [cch EXCEPT ![symbol] = r.res] ELSE cch,
     sink |-> r.sink]

\* CorrelationCalculator.get_validated_security_data(cache, symbol, ...)
get_validated_security_data(cch, symbol, w, snk) ==
    IF IsData(cch[symbol]) THEN [res |-> cch[symbol], cache |-> cch, sink |-> snk]
    ELSE CacheMiss(cch, symbol, Prepare(symbol, w, snk))

RECURSIVE ResultList(_, _, _, _)
\* lines 78-88: the (main security, symbol, correlation) tuples of one symbol;
\* a float is never None, so every correlation is appended
ResultList(symbol, data, mi, w) ==
    IF mi > Len(MainList) THEN <<>>
    ELSE IF IsSecurity(MainList[mi]) /\ symbol = MainSymbol(MainList[mi])
    THEN ResultList(symbol, data, mi + 1, w)
    ELSE <<<<MainList[mi], symbol,
             get_correlation_for_series(series_data_detrended(MainList[mi], w), data).value>>>>
         \o ResultList(symbol, data, mi + 1, w)

\* process_symbol, lines 75-90, where the lookup gave g
SymbolResult(g, symbol, w) ==
    IF IsRaise(g.res) THEN [res |-> g.res, sink |-> g.sink]
    ELSE IF ~IsData(g.res) THEN [res |-> None, sink |-> g.sink]
    ELSE [res |-> [kind |-> "list", items |-> ResultList(symbol, g.res, 1, w)],
          sink |-> g.sink]

\* process_symbol, run in a worker process on its own copy of the cache
process_symbol(cch, symbol, w, snk) ==
    SymbolResult(get_validated_security_data(cch, symbol, w, snk), symbol, w)

\* one more result of pool.map
Collect(st, r) == [results |-> Append(st.results, r.res), sink |-> r.sink]

RECURSIVE PoolMap(_, _, _)
\* pool.map(process_symbol, args): the results in the order of self.symbols
PoolMap(st, i, w) ==
    IF i > Len(symbols) THEN st
    ELSE PoolMap(Collect(st, process_symbol(cache, symbols[i], w, st.sink)), i + 1, w)

RECURSIVE Flatten(_)
\* the tuples of all_results, in the order the merge loop visits them
Flatten(results) ==
    IF results = <<>> THEN <<>>
    ELSE (IF Head(results).kind = "list" THEN Head(results).items ELSE <<>>)
         \o Flatten(Tail(results))

RECURSIVE MergeCopies(_, _, _)
\* lines 130-135.  pool.map pickles its arguments and its results: every
\* main_security of a result tuple is an unpickled copy of the caller's
\* object, taken when the call began.  The loop writes into those copies;
\* the objects of all_main_securities are not touched.  A copy whose slot
\* holds None makes the write raise TypeError.  The result is the tuples
\* written before the first such failure.
MergeCopies(tuples, snapshot, w) ==
    IF tuples = <<>> THEN <<>>
    ELSE IF snapshot[Head(tuples)[1]][w].state = "none" THEN <<>>
    ELSE <<Head(tuples)>> \o MergeCopies(Tail(tuples), snapshot, w)

FirstRaised(results) ==
    results[CHOOSE i \in 1..Len(results) :
                /\ IsRaise(results[i])
                /\ \A j \in 1..(i - 1) : ~IsRaise(results[j])].exc

\* a merge that writes the results of the workers that returned before it
\* raises the exception of the worker that failed
MergeResultsPartial(mapped, w) ==
    [merged |-> MergeCopies(Flatten(mapped.results), all_correlations, w),
     sink |-> mapped.sink,
     exc |-> IF \E i \in 1..Len(mapped.results) : IsRaise(mapped.results[i])
             THEN FirstRaised(mapped.results)
             ELSE IF \E i \in 1..Len(Flatten(mapped.results)) :
                        all_correlations[Flatten(mapped.results)[i][1]][w].state = "none"
             THEN "TypeError" ELSE "none"]

\* lines 127-137, where pool.map gave `mapped`: an exception of a worker is
\* raised again by pool.map, before any merge
MergeResults(mapped, w) ==
    IF \E i \in 1..Len(mapped.results) : IsRaise(mapped.results[i])
    THEN [merged |-> <<>>, sink |-> mapped.sink, exc |-> FirstRaised(mapped.results)]
    ELSE [merged |-> MergeCopies(Flatten(mapped.results), all_correlations, w),
          sink |-> mapped.sink,
          exc |-> IF \E i \in 1..Len(Flatten(mapped.results)) :
                        all_correlations[Flatten(mapped.results)[i][1]][w].state = "none"
                  THEN "TypeError" ELSE "none"]

\* define_correlations_for_series_list_multiprocessing
define_correlations_for_series_list_multiprocessing(w) ==
    MergeResults(PoolMap([results |-> <<>>, sink |-> sink], 1, w), w)

----------------------------------------------------------------------------
(* The runs explored: store contents and pass arguments *)

MaxCalls == 2

PoolSize == 2

Repeat(v, n) == [i \in 1..n |-> v]

\* what the store may hold for candidate symbol 3
Symbol3Menu ==
    { StoreEntry("frame", FALSE, FALSE, Stamp(<<5, 3, 5, 1, 5, 3>>)),       \* valid
      StoreEntry("none",  FALSE, FALSE, <<>>),                              \* no data
      StoreEntry("date",  FALSE, FALSE, Stamp(<<5, 3, 5, 1, 5, 3>>)),       \* 'Date' column
      StoreEntry("frame", TRUE,  FALSE, Stamp(<<5, 3, 5, 1, 5, 3>>)),       \* duplicate columns
      StoreEntry("frame", FALSE, FALSE, Stamp(Repeat(7, window_size))),     \* frozen feed
      StoreEntry("frame", FALSE, FALSE, Stamp(<<1, 2, 3, 4, 5, 6>>)) }      \* constant differences

\* candidates 1 and 2 carry the data of main securities 1 and 2
Stores ==
    { [s \in 1..3 |-> IF s = 3 THEN e ELSE StoreEntry("frame", FALSE, FALSE, MainRaw(s))]
      : e \in Symbol3Menu }

\* source, dl_data, use_ch: "bogus" is a source the readers do not know
PassArgs ==
    { <<"yahoo", FALSE, FALSE>>, <<"alpaca", FALSE, FALSE>>, <<"bogus", FALSE, FALSE>>,
      <<"bogus", TRUE, FALSE>>, <<"bogus", FALSE, TRUE>> }

Modes == {"sequential", "process", "thread"}

\* pool.map takes self.symbols in list order; the other two modes iterate
\* set(self.symbols), in an order that is the same for every call of a run.
\* Thread runs are explored for two of the orders and three of the arguments.
Configs ==
    { c \in { [source |-> a[1], dl_data |-> a[2], use_ch |-> a[3], mode |-> md, order |-> o]
              : a \in PassArgs, md \in Modes, o \in SetOrders(<<1, 2, 3>>) } :
        /\ c.mode = "process" => c.order = <<1, 2, 3>>
        /\ c.mode = "thread" => /\ c.order \in {<<1, 2, 3>>, <<3, 2, 1>>}
                                /\ c.source # "alpaca" /\ ~c.use_ch }

Idle == [mode |-> "idle", w |-> 0, phase |-> "returned", exc |-> "none"]

EmptyCorrelations == [m \in Mains |-> [w \in Windows |-> Absent]]

EmptyLists == [m \in Mains |-> [w \in Windows |-> <<>>]]

\* no symbol has been prepared on its own
Unprepared == [s \in 1..3 |-> [kind |-> "unset"]]

Init ==
    /\ symbols = <<1, 2, 3>>
    /\ store \in Stores
    /\ config \in Configs
    /\ all_correlations = EmptyCorrelations
    /\ positive_correlations = EmptyLists
    /\ negative_correlations = EmptyLists
    /\ cache = [s \in DOMAIN store |-> None]
    /\ sink = <<>>
    /\ call = Idle
    /\ workers = <<>>
    /\ ncalls = 0
    /\ pre = EmptyCorrelations
    /\ mp_merged = <<>>
    /\ ranked_from = EmptyLists
    /\ prepared = Unprepared

\* the orchestrator is free to make a call
CanCall == call.phase # "running" /\ ncalls < MaxCalls

Finished(mode, w, exc) ==
    [mode |-> mode, w |-> w, phase |-> IF exc = "none" THEN "returned" ELSE "raised", exc |-> exc]

----------------------------------------------------------------------------
(* Actions *)

\* the state a sequential pass with result r leaves
SequentialDone(r, w) ==
    /\ pre' = all_correlations
    /\ all_correlations' = r.ac
    /\ sink' = r.sink
    /\ call' = Finished("sequential", w, r.exc)
    /\ ncalls' = ncalls + 1
    /\ UNCHANGED <<symbols, store, config, positive_correlations,
                   negative_correlations, cache, workers, mp_merged, ranked_from,
                   prepared>>

\* the state a process-parallel pass with result r leaves: the caller's main
\* securities and the caller's cache are as they were
ProcessDone(r, w) ==
    /\ pre' = all_correlations
    /\ mp_merged' = r.merged
    /\ sink' = r.sink
    /\ call' = Finished("process", w, r.exc)
    /\ ncalls' = ncalls + 1
    /\ UNCHANGED <<symbols, store, config, all_correlations, positive_correlations,
                   negative_correlations, cache, workers, ranked_from, prepared>>

\* the state define_top_correlations with result r leaves
RankDone(r) ==
    /\ all_correlations' = r.ac
    /\ positive_correlations' = r.pos
    /\ negative_correlations' = r.neg
    /\ ranked_from' = r.rf
    /\ call' = Finished("rank", 0, r.exc)
    /\ ncalls' = ncalls + 1
    /\ UNCHANGED <<symbols, store, config, cache, sink, workers, pre, mp_merged, prepared>>

\* define_correlations_for_series_list(all_main_securities, start_date, ...)
SequentialPass ==
    \E w \in Windows :
        /\ CanCall
        /\ config.mode = "sequential"
        /\ SequentialDone(define_correlations_for_series_list(all_correlations, sink,
                                                              config.order, w), w)

\* define_correlations_for_series_list_multiprocessing(all_main_securities, start_date, ...)
ProcessPass ==
    \E w \in Windows :
        /\ CanCall
        /\ config.mode = "process"
        /\ ProcessDone(define_correlations_for_series_list_multiprocessing(w), w)

\* define_top_correlations(all_main_securities)
Rank ==
    /\ CanCall
    /\ RankDone(define_top_correlations(MainList))

----------------------------------------------------------------------------
(* CorrelationCalculator: the thread-parallel pass.  A worker runs         *)
(* worker(symbol, ...); its steps are its accesses to shared state: the    *)
(* test of line 208, the creation of line 209, the write of line 211.      *)

\* the data a worker holds once line 192 has returned
WorkerData(symbol) == Prepare(symbol, call.w, <<>>).res

RECURSIVE NextMain(_, _, _)
\* lines 196-206: the index of the next main security, from mi on, that the
\* worker reaches line 208 for; Len(MainList) + 1 when there is none
NextMain(symbol, data, mi) ==
    IF mi > Len(MainList) THEN mi
    ELSE IF IsSecurity(MainList[mi]) /\ symbol = MainSymbol(MainList[mi])
    THEN NextMain(symbol, data, mi + 1)
    ELSE IF IsRaise(get_correlation_for_series(series_data_detrended(MainList[mi], call.w), data))
    THEN NextMain(symbol, data, mi + 1)
    ELSE mi

Busy == {s \in DOMAIN workers : workers[s].pc \in {"iter", "create", "write"}}

ThreadFrame == <<symbols, store, config, positive_correlations, negative_correlations,
                 cache, ncalls, pre, mp_merged, ranked_from, prepared>>

\* define_correlations_for_series_list_multithread: the executor is created
\* and one task per symbol of set(self.symbols) is submitted
ThreadStart ==
    \E w \in Windows :
        /\ CanCall
        /\ config.mode = "thread"
        /\ call' = [mode |-> "thread", w |-> w, phase |-> "running", exc |-> "none"]
        /\ workers' = [s \in {config.order[i] : i \in 1..Len(config.order)} |->
                          [pc |-> "queued", mi |-> 1, wrote |-> {}]]
        /\ pre' = all_correlations
        /\ ncalls' = ncalls + 1
        /\ UNCHANGED <<symbols, store, config, all_correlations, positive_correlations,
                       negative_correlations, cache, sink, mp_merged, ranked_from,
                       prepared>>

\* the worker of s has its data r, or has ended on an exception
Fetched(s, r) ==
    /\ sink' = r.sink
    /\ workers' = [workers EXCEPT ![s].pc =
                      IF ~IsRaise(r.res) THEN "iter"
                      ELSE IF r.res.exc = "AttributeError" THEN "done" ELSE "failed"]

\* the worker of s goes on to main security number mi, if there is one
Advance(s, mi) ==
    workers' = [workers EXCEPT ![s].mi = mi,
                  ![s].pc = IF mi > Len(MainList) THEN "done"
                            ELSE IF all_correlations[MainList[mi]][call.w].state = "absent"
                            THEN "create" ELSE "write"]

\* the worker of s stores correlation c into the slot of main security m
Written(s, m, slot, c) ==
    IF slot.state = "none"
    THEN /\ workers' = [workers EXCEPT ![s].pc = "failed"]       \* None[symbol] = ...
         /\ UNCHANGED all_correlations
    ELSE /\ all_correlations' = [all_correlations EXCEPT ![m][call.w] =
                                    StoreCorrelation(slot, s, c.value)]
         /\ workers' = [workers EXCEPT ![s].pc = "iter", ![s].mi = @ + 1,
                                       ![s].wrote = @ \cup {m}]

\* the tasks still in the executor's queue, which is first in, first out
Queued == SelectSeq(config.order, LAMBDA s : workers[s].pc = "queued")

\* lines 191-194: a free pool thread takes the first task of the queue and
\* fetches the data.  AttributeError ends the worker; another exception stays
\* in the task's future.
WorkerFetch(s) ==
    /\ call.phase = "running"
    /\ Queued # <<>> /\ s = Head(Queued)
    /\ Cardinality(Busy) < PoolSize
    /\ Fetched(s, Prepare(s, call.w, sink))
    /\ UNCHANGED <<all_correlations, call>>
    /\ UNCHANGED ThreadFrame

\* lines 196-208: on to the next main security with a correlation to record,
\* and the test "start_date not in main_security.all_correlations"
WorkerIter(s) ==
    /\ call.phase = "running"
    /\ workers[s].pc = "iter"
    /\ Advance(s, NextMain(s, WorkerData(s), workers[s].mi))
    /\ UNCHANGED <<all_correlations, sink, call>>
    /\ UNCHANGED ThreadFrame

\* line 209: main_security.all_correlations[start_date] = {}
WorkerCreate(s) ==
    /\ call.phase = "running"
    /\ workers[s].pc = "create"
    /\ all_correlations' = [all_correlations EXCEPT ![MainList[workers[s].mi]][call.w] = DictSlot(<<>>)]
    /\ workers' = [workers EXCEPT ![s].pc = "write"]
    /\ UNCHANGED <<sink, call>>
    /\ UNCHANGED ThreadFrame

\* line 211: main_security.all_correlations[start_date][symbol] = correlation_float
WorkerWrite(s) ==
    /\ call.phase = "running"
    /\ workers[s].pc = "write"
    /\ Written(s, MainList[workers[s].mi], all_correlations[MainList[workers[s].mi]][call.w],
               get_correlation_for_series(
                   series_data_detrended(MainList[workers[s].mi], call.w), WorkerData(s)))
    /\ UNCHANGED <<sink, call>>
    /\ UNCHANGED ThreadFrame

\* lines 225-230: leaving the with block waits for every task; the iterator
\* of executor.map is never read, so no task's exception is raised here
ThreadReturn ==
    /\ call.phase = "running"
    /\ \A s \in DOMAIN workers : workers[s].pc \in {"done", "failed"}
    /\ call' = [call EXCEPT !.phase = "returned"]
    /\ workers' = <<>>
    /\ UNCHANGED <<all_correlations, sink>>
    /\ UNCHANGED ThreadFrame

Next ==
    \/ SequentialPass
    \/ ProcessPass
    \/ Rank
    \/ ThreadStart
    \/ \E s \in DOMAIN workers : WorkerFetch(s)
    \/ \E s \in DOMAIN workers : WorkerIter(s)
    \/ \E s \in DOMAIN workers : WorkerCreate(s)
    \/ \E s \in DOMAIN workers : WorkerWrite(s)
    \/ ThreadReturn

Spec == Init /\ [][Next]_vars


----------------------------------------------------------------------------
(* Ranking large maps.  The main securities arrive with window 1 already   *)
(* filled by earlier passes over a larger candidate universe (keys 2 to    *)
(* M + 1; a Security with symbol 1 never holds key 1); the calculator of   *)
(* this run has symbols 1 to 3, all with usable data, and runs its passes   *)
(* sequentially or in worker processes.                                    *)

MaxM == 102

MapSizes == {0, 1, 3, num_symbols - 1, num_symbols, num_symbols + 1, MaxM}

Patterns == {"rising", "falling", "mixed", "ties"}

PatternValue(pat, k) ==
    CASE pat = "rising"  -> k - 51
      [] pat = "falling" -> 51 - k
      [] pat = "mixed"   -> ((k * 37) % 101) - 50
      [] OTHER           -> (k % 5) - 2

PatternMap(M, pat) == [k \in 1..M |-> <<k + 1, PatternValue(pat, k)>>]

FilledSlot(M, pat) == IF M = 0 THEN Absent ELSE DictSlot(PatternMap(M, pat))

ValidEntry == StoreEntry("frame", FALSE, FALSE, Stamp(<<5, 3, 5, 1, 5, 3>>))

MainEntries(e) ==
    [s \in 1..3 |-> IF s = 3 THEN e ELSE StoreEntry("frame", FALSE, FALSE, MainRaw(s))]

InitRank ==
    /\ symbols = <<1, 2, 3>>
    /\ store = MainEntries(ValidEntry)
    /\ config \in {c \in Configs : /\ c.source = "yahoo" /\ ~c.dl_data /\ ~c.use_ch
                                   /\ c.mode \in {"sequential", "process"}
                                   /\ c.order = <<1, 2, 3>>}
    /\ \E M \in MapSizes, pat \in Patterns, both \in BOOLEAN :
          all_correlations =
              [m \in Mains |-> [w \in Windows |->
                  IF w = 1 /\ (m = 1 \/ both) THEN FilledSlot(M, pat) ELSE Absent]]
    /\ positive_correlations = EmptyLists
    /\ negative_correlations = EmptyLists
    /\ cache = [s \in DOMAIN store |-> None]
    /\ sink = <<>>
    /\ call = Idle
    /\ workers = <<>>
    /\ ncalls = 0
    /\ pre = EmptyCorrelations
    /\ mp_merged = <<>>
    /\ ranked_from = EmptyLists
    /\ prepared = Unprepared

NextRank == SequentialPass \/ ProcessPass \/ Rank

SpecRank == InitRank /\ [][NextRank]_vars

----------------------------------------------------------------------------
(* Preparation of one candidate on its own: get_validated_security_data    *)
(* on raw series with gaps.  A raw series is a finite values, then r       *)
(* missing values, then b finite values.                                   *)

MaxLen == 12

\* "flat" repeats one price; "run9" and "run10" repeat it 9 and 10 times
\* and then move; "varied" never repeats a price more than twice
RawValue(pat, i) ==
    CASE pat = "flat"  -> 7
      [] pat = "run9"  -> IF i <= window_size - 1 THEN 7 ELSE i
      [] pat = "run10" -> IF i <= window_size THEN 7 ELSE i
      [] OTHER         -> (i * i) % 5

RawSeries(a, r, b, pat) ==
    Stamp([i \in 1..(a + r + b) |-> IF i > a /\ i <= a + r THEN NaN ELSE RawValue(pat, i)])

RawMenu ==
    { RawSeries(t[1], t[2], t[3], pat) :
        t \in {u \in (1..MaxLen) \X (0..MaxLen) \X (0..MaxLen) : u[1] + u[2] + u[3] <= MaxLen},
        pat \in {"flat", "run9", "run10", "varied"} }

\* files that fail, or never reach, the structural check of read_series_data
StructMenu ==
    Symbol3Menu \cup
    { StoreEntry("frame", FALSE, TRUE,  Stamp(<<5, 3, 5, 1, 5, 3>>)),      \* no informative values
      StoreEntry("frame", FALSE, FALSE, <<>>),                             \* no rows
      StoreEntry("frame", TRUE,  TRUE,  <<>>),                             \* duplicates and no rows
      StoreEntry("noadj", FALSE, FALSE, Stamp(<<5, 3, 5, 1, 5, 3>>)) }     \* no 'Adj Close' column

\* what the store may hold for the symbol that is prepared
PrepMenu == {StoreEntry("frame", FALSE, FALSE, raw) : raw \in RawMenu} \cup StructMenu

InitPrep ==
    /\ symbols = <<1, 2, 3>>
    /\ \E e \in PrepMenu : store = MainEntries(e)
    /\ config \in {c \in Configs : /\ c.source \in {"yahoo", "alpaca"} /\ ~c.dl_data /\ ~c.use_ch
                                   /\ c.mode = "sequential" /\ c.order = <<1, 2, 3>>}
    /\ all_correlations = EmptyCorrelations
    /\ positive_correlations = EmptyLists
    /\ negative_correlations = EmptyLists
    /\ cache = [s \in DOMAIN store |-> None]
    /\ sink = <<>>
    /\ call = Idle
    /\ workers = <<>>
    /\ ncalls = 0
    /\ pre = EmptyCorrelations
    /\ mp_merged = <<>>
    /\ ranked_from = EmptyLists
    /\ prepared = Unprepared

\* the state a call of get_validated_security_data for s, with result r, leaves
PreparedWith(s, r) ==
    /\ prepared' = [prepared EXCEPT ![s] = r.res]
    /\ sink' = r.sink
    /\ UNCHANGED <<symbols, store, config, all_correlations, positive_correlations,
                   negative_correlations, cache, call, workers, ncalls, pre, mp_merged,
                   ranked_from>>

\* get_validated_security_data(symbol, start_date, end_date, source, dl_data, use_ch)
PrepareSymbol(s) ==
    /\ prepared[s].kind = "unset"
    /\ \E w \in Windows : PreparedWith(s, Prepare(s, w, sink))

NextPrep == \E s \in DOMAIN prepared : PrepareSymbol(s)

SpecPrep == InitPrep /\ [][NextPrep]_vars

----------------------------------------------------------------------------
(* CorrelationCalculator.define_correlation_for_each_year: one run over    *)
(* all_start_dates.  A step of the run is one iteration of its loop, so    *)
(* the state between two windows of a run is a state of the model.         *)

\* all_start_dates, line 106, as indices of the windows, in loop order
all_start_dates == [i \in 1..NumWindows |-> i]

\* the run is at the iteration of all_start_dates[i]
AtWindow(i) == [mode |-> "year", w |-> i, phase |-> "running", exc |-> "none"]

\* what an iteration that ended with exc leaves of the run: an exception
\* leaves the loop and the function
YearAfter(i, exc) ==
    IF exc = "none" THEN AtWindow(i + 1) ELSE Finished("year", i, exc)

\* lines 113-115: the iteration of a sequential run, its pass giving r
YearSequentialDone(r, i) ==
    /\ pre' = all_correlations
    /\ all_correlations' = r.ac
    /\ sink' = r.sink
    /\ call' = YearAfter(i, r.exc)
    /\ UNCHANGED <<symbols, store, config, positive_correlations,
                   negative_correlations, cache, workers, ncalls, mp_merged,
                   ranked_from, prepared>>

\* lines 108-111: the iteration of a multiprocessing run, its pass giving r
YearProcessDone(r, i) ==
    /\ pre' = all_correlations
    /\ mp_merged' = r.merged
    /\ sink' = r.sink
    /\ call' = YearAfter(i, r.exc)
    /\ UNCHANGED <<symbols, store, config, all_correlations, positive_correlations,
                   negative_correlations, cache, workers, ncalls, ranked_from,
                   prepared>>

\* the call of define_correlation_for_each_year, up to its first iteration
YearStart ==
    /\ CanCall
    /\ call' = AtWindow(1)
    /\ pre' = all_correlations
    /\ ncalls' = ncalls + 1
    /\ UNCHANGED <<symbols, store, config, all_correlations, positive_correlations,
                   negative_correlations, cache, sink, workers, mp_merged,
                   ranked_from, prepared>>

\* one iteration with use_multiprocessing false
YearSequentialPass ==
    /\ call.mode = "year" /\ call.phase = "running"
    /\ call.w <= Len(all_start_dates)
    /\ config.mode = "sequential"
    /\ YearSequentialDone(define_correlations_for_series_list(all_correlations, sink,
                              config.order, all_start_dates[call.w]), call.w)

\* one iteration with use_multiprocessing true
YearProcessPass ==
    /\ call.mode = "year" /\ call.phase = "running"
    /\ call.w <= Len(all_start_dates)
    /\ config.mode = "process"
    /\ YearProcessDone(define_correlations_for_series_list_multiprocessing(
                              all_start_dates[call.w]), call.w)

\* line 117, after the last iteration
YearReturn ==
    /\ call.mode = "year" /\ call.phase = "running"
    /\ call.w > Len(all_start_dates)
    /\ call' = Finished("year", Len(all_start_dates), "none")
    /\ UNCHANGED <<symbols, store, config, all_correlations, positive_correlations,
                   negative_correlations, cache, sink, workers, ncalls, pre,
                   mp_merged, ranked_from, prepared>>

\* use_multiprocessing is config.mode = "process"
InitYear ==
    /\ Init
    /\ config.mode \in {"sequential", "process"}

NextYear == YearStart \/ YearSequentialPass \/ YearProcessPass \/ YearReturn \/ Rank

SpecYear == InitYear /\ [][NextYear]_vars

----------------------------------------------------------------------------
(* CorrelationCalculator.get_validated_security_data called by concurrent  *)
(* callers on one cache.  The cache class is not part of the sources: as   *)
(* its specification has it, it is a key-value store whose get and set are *)
(* atomic per key, and get of an absent key gives None.  A caller's steps  *)
(* are its accesses to the cache and its call of the preparer; `workers`   *)
(* holds the callers.                                                      *)

NumCallers == 2

\* the symbols the callers ask for: symbol 2, whose data is valid, and
\* symbol 3, whose file is any of CacheStores
LookupSymbols == {2, 3}

\* a caller that has not called yet
NoLookup == [pc |-> "idle", symbol |-> 0, w |-> 0, data |-> None, hit |-> FALSE,
             prepared |-> FALSE]

\* a caller entering get_validated_security_data(cache, symbol, start_date, ...)
Lookup(symbol, w) ==
    [pc |-> "get", symbol |-> symbol, w |-> w, data |-> None, hit |-> FALSE,
     prepared |-> FALSE]

CacheFrame == <<symbols, store, config, all_correlations, positive_correlations,
                negative_correlations, call, pre, mp_merged, ranked_from, prepared>>

\* line 140: the call; each caller calls once, at any moment
CachedCall(c) ==
    /\ workers[c].pc = "idle"
    /\ \E s \in LookupSymbols : \E w \in Windows :
          workers' = [workers EXCEPT ![c] = Lookup(s, w)]
    /\ UNCHANGED <<cache, sink, ncalls>>
    /\ UNCHANGED CacheFrame

\* lines 142-145: cache.get(symbol), and the return of a hit
CachedGet(c) ==
    /\ workers[c].pc = "get"
    /\ workers' = [workers EXCEPT ![c] =
                      IF IsData(cache[workers[c].symbol])
                      THEN [@ EXCEPT !.pc = "done", !.data = cache[workers[c].symbol],
                                     !.hit = TRUE]
                      ELSE [@ EXCEPT !.pc = "prepare"]]
    /\ UNCHANGED <<cache, sink, ncalls>>
    /\ UNCHANGED CacheFrame

\* the caller c after line 148 gave r: an exception leaves the function
CachePrepared(c, r) ==
    /\ workers' = [workers EXCEPT ![c] =
                      IF IsRaise(r.res)
                      THEN [@ EXCEPT !.pc = "failed", !.prepared = TRUE]
                      ELSE [@ EXCEPT !.pc = "set", !.data = r.res, !.prepared = TRUE]]
    /\ sink' = r.sink

\* line 148: original_get_validated_security_data(symbol, start_date, ...)
CachedPrepare(c) ==
    /\ workers[c].pc = "prepare"
    /\ CachePrepared(c, Prepare(workers[c].symbol, workers[c].w, sink))
    /\ UNCHANGED <<cache, ncalls>>
    /\ UNCHANGED CacheFrame

\* lines 149-152: cache.set(symbol, data) unless data is None, and the return
CachedSet(c) ==
    /\ workers[c].pc = "set"
    /\ cache' = CacheMiss(cache, workers[c].symbol,
                          [res |-> workers[c].data, sink |-> sink]).cache
    /\ workers' = [workers EXCEPT ![c].pc = "done"]
    /\ UNCHANGED <<sink, ncalls>>
    /\ UNCHANGED CacheFrame

\* the source arguments of the run: every caller passes the same ones
CacheConfigs ==
    {c \in Configs : /\ c.mode = "sequential" /\ c.order = <<1, 2, 3>>
                     /\ c.source = "yahoo" \/ c.dl_data \/ c.use_ch}

\* the stores of the run: the file of symbol 3 is valid, missing, or has a
\* 'Date' column
CacheStores == {st \in Stores : st[3] = ValidEntry \/ st[3].file \in {"none", "date"}}

InitCache ==
    /\ symbols = <<1, 2, 3>>
    /\ store \in CacheStores
    /\ config \in CacheConfigs
    /\ all_correlations = EmptyCorrelations
    /\ positive_correlations = EmptyLists
    /\ negative_correlations = EmptyLists
    /\ cache = [s \in DOMAIN store |-> None]
    /\ sink = <<>>
    /\ call = Idle
    /\ workers = [c \in 1..NumCallers |-> NoLookup]
    /\ ncalls = 0
    /\ pre = EmptyCorrelations
    /\ mp_merged = <<>>
    /\ ranked_from = EmptyLists
    /\ prepared = Unprepared

NextCache ==
    \/ \E c \in DOMAIN workers : CachedCall(c)
    \/ \E c \in DOMAIN workers : CachedGet(c)
    \/ \E c \in DOMAIN workers : CachedPrepare(c)
    \/ \E c \in DOMAIN workers : CachedSet(c)

SpecCache == InitCache /\ [][NextCache]_vars

----------------------------------------------------------------------------
(* Properties *)

PassModes == {"sequential", "process", "thread"}

PassEnded == call.mode \in PassModes /\ call.phase # "running"

PassReturned == call.mode \in PassModes /\ call.phase = "returned"

\* what the sequential strategy leaves when run from the state in which the
\* last pass began
SequentialOutcome == define_correlations_for_series_list(pre, <<>>, config.order, call.w)

\* two slots hold the same keys with the same values
SameContent(a, b) ==
    /\ DictKeys(a.d) = DictKeys(b.d)
    /\ \A k \in DictKeys(a.d) : DictGet(a.d, k) = DictGet(b.d, k)

\* the candidate's prepared data, as every strategy obtains it
PreparedData(s) == Prepare(s, call.w, <<>>).res

\* the correlation the pass computes for main security m and candidate s
PairCorrelation(m, s) ==
    get_correlation_for_series(series_data_detrended(m, call.w), PreparedData(s))

Ranked(m, w) == ranked_from[m][w] # <<>>

\* C1: once a pass has returned, each main security's all_correlations[window]
\* has the keys and values the sequential strategy gives for the same main
\* securities, symbols, window and store, whatever strategy ran and however
\* its workers were scheduled.
C1_StrategiesAgree ==
    (PassReturned /\ SequentialOutcome.exc = "none") =>
        \A m \in Mains :
            SameContent(all_correlations[m][call.w], SequentialOutcome.ac[m][call.w])

\* C2: in thread mode, when every worker has finished, all_correlations[window]
\* of a main security has a key for every candidate whose worker wrote to it.
C2_NoLostUpdate ==
    (/\ call.mode = "thread" /\ call.phase = "running"
     /\ \A s \in DOMAIN workers : workers[s].pc \in {"done", "failed"}) =>
        \A s \in DOMAIN workers : \A m \in workers[s].wrote :
            DictHas(all_correlations[m][call.w].d, s)

\* C3: all_correlations[window] of a main security never has the main
\* security's own identity as a key, whatever the variant of the main security.
C3_NoSelfComparison ==
    \A m \in Mains : \A w \in Windows : ~DictHas(all_correlations[m][w].d, MainSymbol(m))

\* C4: after a pass, a candidate whose correlation with a main security is
\* undefined (fewer than 2 overlapping points, or zero variance) has no entry
\* in that main security's all_correlations[window].
C4_UndefinedIsSkipped ==
    PassEnded =>
        \A m \in Mains : \A s \in DOMAIN store :
            (~IsRaise(PairCorrelation(m, s)) /\ IsNaN(PairCorrelation(m, s).value))
                => ~DictHas(all_correlations[m][call.w].d, s)

\* C5: when the preparation of one candidate yields no result, the pass still
\* returns normally and has recorded the correlation of every other candidate
\* with usable data, for every main security whose window has not been ranked.
C5_OneFailureDoesNotAbort ==
    (/\ PassEnded
     /\ \E s \in DOMAIN store : ~IsData(PreparedData(s)) /\ ~(IsRaise(PreparedData(s)) /\ PreparedData(s).exc = "ValueError")
     /\ \A m \in Mains : pre[m][call.w].state # "none") =>
        /\ call.phase = "returned"
        /\ \A m \in Mains : \A s \in DOMAIN store :
            (IsData(PreparedData(s)) /\ ~(IsSecurity(m) /\ s = MainSymbol(m)))
                => DictHas(all_correlations[m][call.w].d, s)

\* C6: a pass called with a source the readers do not know ends in an error
\* raised to the caller and records nothing, in every mode and for every
\* setting of dl_data and use_ch.
C6_UnknownSourceIsFatal ==
    (PassEnded /\ config.source \notin {"yahoo", "alpaca"}) =>
        /\ call.phase = "raised"
        /\ call.exc = "ValueError"
        /\ all_correlations = pre

\* the finite values of a list of <<symbol, value>> entries never increase
NonIncreasing(list) ==
    \A i, j \in 1..Len(list) :
        (i < j /\ ~IsNaN(list[i][2]) /\ ~IsNaN(list[j][2])) => list[i][2] >= list[j][2]

\* the finite values of a list of <<symbol, value>> entries never decrease
NonDecreasing(list) ==
    \A i, j \in 1..Len(list) :
        (i < j /\ ~IsNaN(list[i][2]) /\ ~IsNaN(list[j][2])) => list[i][2] <= list[j][2]

\* every entry of the list is a symbol of the map d with the value d held
FromMap(list, d) ==
    \A i \in 1..Len(list) : DictHas(d, list[i][1]) /\ DictGet(d, list[i][1]) = list[i][2]

\* C7: ranking a window whose map has M entries leaves min(M, 100) entries in
\* positive_correlations[window], in non-increasing order of value, and
\* min(M, 100) entries in negative_correlations[window], in non-decreasing
\* order, each entry with the symbol and the value of the map.
C7_RankedLists ==
    \A m \in Mains : \A w \in Windows :
        Ranked(m, w) =>
            /\ Len(positive_correlations[m][w]) = Min(Len(ranked_from[m][w]), num_symbols)
            /\ Len(negative_correlations[m][w]) = Min(Len(ranked_from[m][w]), num_symbols)
            /\ NonIncreasing(positive_correlations[m][w])
            /\ NonDecreasing(negative_correlations[m][w])
            /\ FromMap(positive_correlations[m][w], ranked_from[m][w])
            /\ FromMap(negative_correlations[m][w], ranked_from[m][w])

\* C8, as the code has it: after define_top_correlations has ranked a window
\* with a non-empty map, all_correlations[window] is None: the key is kept and
\* holds no mapping.
C8_RankedSlotIsNone ==
    \A m \in Mains : \A w \in Windows : Ranked(m, w) => all_correlations[m][w] = NoneSlot

\* C8, as stated: after define_top_correlations has ranked a window with a
\* non-empty map, all_correlations[window] is a mapping with zero entries.
C8_RankedSlotIsEmptyMap ==
    \A m \in Mains : \A w \in Windows : Ranked(m, w) => all_correlations[m][w] = DictSlot(<<>>)

\* a window with a non-empty map has been ranked, and a later call has met it
C8_Witness ==
    /\ ncalls >= 2
    /\ \E m \in Mains : \E w \in Windows :
        /\ Ranked(m, w)
        /\ Len(positive_correlations[m][w]) > 0
        /\ all_correlations[m][w] = NoneSlot

\* C9: positive_correlations[window] and negative_correlations[window] never
\* hold more than 100 entries, whatever passes and rankings have run.
C9_AtMostNumSymbols ==
    \A m \in Mains : \A w \in Windows :
        /\ Len(positive_correlations[m][w]) <= num_symbols
        /\ Len(negative_correlations[m][w]) <= num_symbols

\* a map of more than 100 entries has been ranked into 100, and a second
\* ranking or a pass over the same window has ended since
C9_Witness ==
    /\ ncalls >= 2
    /\ call.phase # "running"
    /\ \E m \in Mains : \E w \in Windows :
        /\ Len(ranked_from[m][w]) > num_symbols
        /\ Len(positive_correlations[m][w]) = num_symbols
        /\ Len(negative_correlations[m][w]) = num_symbols
        /\ call.mode = "rank" \/ call.w = w

\* the values hold n missing values in a row
HasNaNRun(vals, n) ==
    \E i \in 1..(Len(vals) - n + 1) : \A j \in i..(i + n - 1) : IsNaN(vals[j])

\* C10: preparation rejects every raw series with a run of 10 or more missing
\* values, and the continuity check accepts a series whose longest run of
\* missing values is 9.
C10_LongGapsRejected ==
    \A s \in DOMAIN prepared :
        (prepared[s].kind # "unset" /\ store[s].file = "frame") =>
            /\ HasNaNRun(Values(store[s].raw), window_size) => prepared[s] = None
            /\ (/\ HasNaNRun(Values(store[s].raw), window_size - 1)
                /\ ~HasNaNRun(Values(store[s].raw), window_size))
                    => is_series_continuous(store[s].raw)

\* the values hold n finite, equal values in a row
HasEqualRun(vals, n) ==
    \E i \in 1..(Len(vals) - n + 1) :
        \A j \in i..(i + n - 1) : ~IsNaN(vals[j]) /\ vals[j] = vals[i]

\* C11: preparation rejects every raw series with 10 or more identical values
\* in a row, and the non-repetition check accepts a series whose longest run
\* of identical values is 9.
C11_LongRepeatsRejected ==
    \A s \in DOMAIN prepared :
        (prepared[s].kind # "unset" /\ store[s].file = "frame") =>
            /\ HasEqualRun(Values(store[s].raw), window_size) => prepared[s] = None
            /\ (/\ HasEqualRun(Values(store[s].raw), window_size - 1)
                /\ ~HasEqualRun(Values(store[s].raw), window_size))
                    => is_series_non_repeating(store[s].raw)

\* a series that repeats a price 10 times and then moves has been rejected
C11_Witness ==
    \E s \in DOMAIN prepared :
        /\ prepared[s].kind # "unset"
        /\ Len(store[s].raw) > window_size
        /\ HasEqualRun(Values(store[s].raw), window_size)
        /\ store[s].raw[Len(store[s].raw)][2] # store[s].raw[1][2]
        /\ prepared[s] = None

\* the positions of raw, from the second on, whose value and whose
\* predecessor's value are both present
DefinedSteps(raw) ==
    SelectSeq([k \in 1..(Len(raw) - 1) |-> k + 1],
              LAMBDA i : ~IsNaN(raw[i][2]) /\ ~IsNaN(raw[i - 1][2]))

NoMissing(raw) == \A i \in 1..Len(raw) : ~IsNaN(raw[i][2])

\* C12, as the code has it: the prepared series holds, in order, the
\* difference raw[i] - raw[i-1] at the timestamp of raw[i] for exactly the
\* positions i whose value and predecessor are both present; a raw series
\* with at least one point and no missing value gives input length - 1
\* points.
C12_DefinedDifferences ==
    \A s \in DOMAIN prepared :
        (IsData(prepared[s]) /\ store[s].file = "frame") =>
            /\ Len(prepared[s].series) = Len(DefinedSteps(store[s].raw))
            /\ \A k \in 1..Len(prepared[s].series) :
                prepared[s].series[k] =
                    <<store[s].raw[DefinedSteps(store[s].raw)[k]][1],
                      store[s].raw[DefinedSteps(store[s].raw)[k]][2]
                        - store[s].raw[DefinedSteps(store[s].raw)[k] - 1][2]>>
            /\ (NoMissing(store[s].raw) /\ store[s].raw # <<>>)
                  => Len(prepared[s].series) = Len(store[s].raw) - 1

\* C12, as stated: the prepared series of a raw series that passes validation
\* has input length - 1 points, and its element i is raw[i+1] - raw[i].
C12_LengthMinusOne ==
    \A s \in DOMAIN prepared :
        (IsData(prepared[s]) /\ store[s].file = "frame") =>
            /\ Len(prepared[s].series) = Len(store[s].raw) - 1
            /\ \A k \in 1..Len(prepared[s].series) :
                prepared[s].series[k][2] = store[s].raw[k + 1][2] - store[s].raw[k][2]

\* a raw series with missing values has been prepared into fewer than
\* input length - 1 points
C12_Witness ==
    \E s \in DOMAIN prepared :
        /\ IsData(prepared[s])
        /\ ~NoMissing(store[s].raw)
        /\ Len(prepared[s].series) >= 1
        /\ Len(prepared[s].series) < Len(store[s].raw) - 1

----------------------------------------------------------------------------
(* One run over the windows *)

\* the iteration that just ended wrote into the map of main security m for
\* window w: pre is all_correlations as the iteration found it
WrittenInto(m, w) ==
    /\ call.mode = "year"
    /\ all_correlations[m][w] # pre[m][w]

\* the map of main security m for window w was waiting to be ranked when the
\* iteration that just ended began
Unranked(m, w) == pre[m][w].state = "dict" /\ pre[m][w].d # <<>>

\* C13: within one run of define_correlation_for_each_year, an iteration
\* writes into a main security's map of a window only when the map of every
\* window the run took before it has been ranked by define_top_correlations
\* and cleared, that is, no earlier window's map still holds unranked
\* correlations.
C13_RankedBeforeNextWindow ==
    \A m \in Mains : \A i \in 1..Len(all_start_dates) : \A j \in 1..(i - 1) :
        WrittenInto(m, all_start_dates[i]) => ~Unranked(m, all_start_dates[j])

----------------------------------------------------------------------------
(* The end of a parallel pass *)

\* a worker of the pass produced a correlation for main security m and
\* candidate s: the candidate has data, is not the main security itself, and
\* the correlation step returned
Produced(m, s) ==
    /\ IsData(PreparedData(s))
    /\ ~(IsSecurity(m) /\ s = MainSymbol(m))
    /\ ~IsRaise(PairCorrelation(m, s))

\* no worker of the pass is still at work
NoWorkerRunning == \A s \in DOMAIN workers : workers[s].pc \in {"done", "failed"}

\* C14: when a process-parallel or thread-parallel pass has returned, no
\* worker of the pass is still running, and every correlation a worker
\* produced is in all_correlations[window] of its main security (for main
\* securities whose window had not been ranked before the pass).
C14_BarrierAtReturn ==
    (call.mode \in {"process", "thread"} /\ call.phase = "returned") =>
        /\ NoWorkerRunning
        /\ \A m \in Mains : \A s \in DOMAIN store :
              (Produced(m, s) /\ pre[m][call.w].state # "none")
                  => DictHas(all_correlations[m][call.w].d, s)

----------------------------------------------------------------------------
(* A pair whose correlation step fails *)

\* the correlation step of main security m and candidate s, run on the
\* candidate's prepared data, gave no correlation: it raised, or the aligned
\* series have fewer than 2 common points or no variance
PairFailed(m, s) ==
    /\ IsData(PreparedData(s))
    /\ ~(IsSecurity(m) /\ s = MainSymbol(m))
    /\ \/ IsRaise(PairCorrelation(m, s))
       \/ IsNaN(PairCorrelation(m, s).value)

\* C15: when the correlation step fails for one pair of a main security and
\* a candidate, the pass, in every mode, still records every other pair that
\* has a correlation: the same candidate against the other main securities,
\* and every other candidate (for main securities whose window had not been
\* ranked before the pass).
C15_PairFailureIsLocal ==
    (/\ PassEnded
     /\ \E m \in Mains : \E s \in DOMAIN store : PairFailed(m, s)
     /\ \A m \in Mains : pre[m][call.w].state # "none") =>
        \A m \in Mains : \A s \in DOMAIN store :
            (Produced(m, s) /\ ~PairFailed(m, s))
                => DictHas(all_correlations[m][call.w].d, s)

----------------------------------------------------------------------------
(* The cache *)

\* what preparing symbol s for window w returns
PrepareFor(s, w) == Prepare(s, w, <<>>).res

\* v is a complete prepared series that preparing symbol s returns
PreparedSeriesOf(s, v) == IsData(v) /\ \E w \in Windows : v = PrepareFor(s, w)

C17_HitEqualsPrepare ==
    \A c \in DOMAIN workers :
        (workers[c].pc = "done" /\ workers[c].hit)
            => workers[c].data = PrepareFor(workers[c].symbol, workers[c].w)

\* preparing symbol s returns no series for any window
NeverPrepared(s) == \A w \in Windows : ~IsData(PrepareFor(s, w))

\* C20: a preparation without result is never cached: every entry of the
\* cache is a prepared series that preparing its symbol returns, a symbol
\* whose preparation gives no result has no entry, and every call for such a
\* symbol that has ended has missed and called the preparer.
C20_RejectedNeverCached ==
    /\ \A s \in DOMAIN cache : IsData(cache[s]) => PreparedSeriesOf(s, cache[s])
    /\ \A s \in DOMAIN cache : NeverPrepared(s) => cache[s] = None
    /\ \A c \in DOMAIN workers :
          (workers[c].pc \in {"done", "failed"} /\ NeverPrepared(workers[c].symbol))
              => (workers[c].prepared /\ ~workers[c].hit)

\* a later call for a symbol whose preparation was rejected before has
\* called the preparer again
C20_Witness ==
    \E c, d \in DOMAIN workers :
        /\ c # d
        /\ workers[c].symbol = workers[d].symbol
        /\ workers[c].pc = "done" /\ workers[d].pc = "done"
        /\ workers[c].data = None /\ workers[d].data = None
        /\ workers[c].prepared /\ workers[d].prepared
        /\ cache[workers[c].symbol] = None

----------------------------------------------------------------------------
(* The exclude-list sink *)

\* the number of lines of the sink that name symbol s
SinkCount(s) == Len(SelectSeq(sink, LAMBDA x : x = s))

\* the preparation of symbol s runs series_is_empty and the file fails it:
\* a yahoo file with an 'Adj Close' column that has duplicate or NaN-only
\* columns, no rows, or no informative values
FailsStructuralCheck(s) ==
    /\ config.source = "yahoo" /\ ~config.dl_data /\ ~config.use_ch
    /\ store[s].file = "frame"
    /\ store[s].dup \/ store[s].flat \/ store[s].raw = <<>>

\* the sink has been appended to, or is as it was
SinkAppended ==
    /\ Len(sink') >= Len(sink)
    /\ SubSeq(sink', 1, Len(sink)) = sink

\* the sink names each prepared symbol that fails the structural check once,
\* and no other symbol
SinkNamesFailures ==
    \A s \in DOMAIN prepared :
        SinkCount(s) = IF prepared[s].kind # "unset" /\ FailsStructuralCheck(s) THEN 1 ELSE 0

\* C18: a preparation appends its symbol to the sink exactly when the symbol
\* fails the structural check series_is_empty, and once; a missing file, a
\* continuity or repetition rejection and a successful preparation leave the
\* sink as it was; and no step removes or changes a line of the sink.
C18_SinkOnStructuralReject == []SinkNamesFailures /\ [][SinkAppended]_vars

\* a symbol without informative values has been prepared and rejected, and
\* the sink names it, while the other symbols were prepared with success
C18_Witness ==
    /\ \A s \in DOMAIN prepared : prepared[s].kind # "unset"
    /\ store[3].flat /\ ~store[3].dup
    /\ prepared[3] = None
    /\ IsData(prepared[1])
    /\ sink = <<3>>

----------------------------------------------------------------------------
(* A worker process that raises *)

\* the iteration of a multiprocessing run that just ended was left by the
\* exception of a worker: process_symbol raises what the preparer raises
WorkerRaised ==
    /\ call.mode = "year" /\ config.mode = "process"
    /\ call.phase = "raised"
    /\ call.exc \in {"AttributeError", "ValueError"}

\* C19: in process mode, when a worker of a window raises, no result of the
\* window has been merged and all_correlations of every main security is as
\* it was before the window's call.
C19_NoPartialMerge ==
    WorkerRaised => (mp_merged = <<>> /\ all_correlations = pre)

\* the worker of symbol 3 raised after the workers of symbols 1 and 2 had
\* returned their correlations
C19_Witness ==
    /\ WorkerRaised
    /\ call.exc = "AttributeError"
    /\ store[3].file = "date"
    /\ IsData(PrepareFor(1, call.w)) /\ IsData(PrepareFor(2, call.w))

=============================================================================
